---- MODULE Spec2Model ----
(***************************************************************************)
(* StreamGrid: the RTSP-to-HLS transcoding supervisor (RTSPService), the   *)
(* application-quit hook of the main process, and the control API's        *)
(* middleware chain (rate limiter, auth gate).                              *)
(*                                                                         *)
(* The main process is one event loop: every action below is the piece of  *)
(* a handler that runs between two suspension points (await, timer, child  *)
(* process event), so actions interleave exactly where the code can be     *)
(* suspended.  A filesystem call takes effect in the step that resumes     *)
(* its caller.  Time is not modelled: timers and polls fire in any order.  *)
(***************************************************************************)
EXTENDS Integers, Sequences, FiniteSets, TLC

\* ------------------------------------------------------------ bounds
\* Three scenario sizes: how many stream ids, IPC calls, stream objects and
\* ffmpeg processes a run may use.  Conc*: concurrent starts and stops on two
\* ids.  Retry*: one session retried to exhaustion.  Quit*: the quit hook.
ConcIds == 2
ConcCalls == 3
ConcObjs == 2
ConcProcs == 2
\* Seg*: the segment server answering requests for SegIds stream ids (and
\* an id no session has) while SegCalls start/stop calls run.
SegIds == 1
SegCalls == 2
SegObjs == 1
SegProcs == 2
RetryIds == 1
RetryCalls == 1
RetryObjs == 1
RetryProcs == 5
QuitIds == 2
QuitCalls == 2
QuitObjs == 2
QuitProcs == 2
\* The playlist poll gives up after maxAttempts = 15 failed fs.access calls
\* (apiServer.ts:744).  A failed round changes nothing but the counter, so
\* the states the rest of the service can reach do not depend on the count;
\* the model polls PollRounds times.
PollRounds == 2

\* ------------------------------------------------- program constants
maxRetries == 3
basePort == 8100
portScanAttempts == 100

rateMax == 100
GRID_COLS == 24
DefaultMaxRows == 24

\* Control-API traffic.  Gate*: one caller sending every header form on every
\* route.  Rate*: two callers counted up to the rate ceiling, sending the
\* first RateHeaders header forms on the first RateRoutes routes.
GateCallers == 1
GateHeaders == 11
GateRoutes == 11
RateCallers == 2
RateHeaders == 2
RateRoutes == 3
\* Key*: one caller sending no key, the first or the second generated key on
\* one authenticated route, while the dialog generates up to KeyMax keys.
KeyCallers == 1
KeyHeaders == 3
KeyRoutes == 1
KeyMax == 3
\* Layout*: chooseLayouts on 0..LayoutTiles tile ids
LayoutTiles == 150
\* Store*: the store holding up to StoreStreams streams with ids out of
\* StoreIdCount and up to StoreChats chats, one API caller sending no key or
\* the configured key on the stream routes, StoreHandlers requests at a time
\* and StoreRequests counted by the limiter.
StoreIdCount == 2
StoreStreams == 2
StoreChats == 1
StoreCallers == 1
StoreHeaders == 2
StoreRoutes == 6
StoreKeys == 1
StoreHandlers == 1
StoreRequests == 2
\* Grid*: the grid management calls on a store of up to GridStreams streams
\* and GridCount grid files.
GridIdCount == 1
GridStreams == 1
GridKeys == 1
GridCount == 2
\* Race*: RaceHandlers requests to the stream routes in flight at once on a
\* store of up to RaceStreams streams with RaceIdCount ids.
RaceIdCount == 1
RaceStreams == 1
RaceHandlers == 2
RaceRequests == 3
\* How many stopApiServer calls may wait for one 'close' event
MaxClosers == 3

Profile(ids, ncalls, nobjs, nprocs, callers, headers, routes, keys) ==
  [ids |-> ids, calls |-> ncalls, objs |-> nobjs, procs |-> nprocs,
   callers |-> callers, headers |-> headers, routes |-> routes, keys |-> keys,
   tiles |-> 0, sids |-> 0, streams |-> 0, chats |-> 0, handlers |-> 0, requests |-> 0, grids |-> 0]
ConcProfile == Profile(ConcIds, ConcCalls, ConcObjs, ConcProcs, 0, 0, 0, 0)
RetryProfile == Profile(RetryIds, RetryCalls, RetryObjs, RetryProcs, 0, 0, 0, 0)
SegProfile == Profile(SegIds, SegCalls, SegObjs, SegProcs, 0, 0, 0, 0)
QuitProfile == Profile(QuitIds, QuitCalls, QuitObjs, QuitProcs, 0, 0, 0, 0)
GateProfile == Profile(0, 0, 0, 0, GateCallers, GateHeaders, GateRoutes, 0)
RateProfile == Profile(0, 0, 0, 0, RateCallers, RateHeaders, RateRoutes, 0)
KeyProfile == Profile(0, 0, 0, 0, KeyCallers, KeyHeaders, KeyRoutes, KeyMax)
RaceProfile ==
  [Profile(0, 0, 0, 0, StoreCallers, StoreHeaders, StoreRoutes, StoreKeys) EXCEPT
     !.sids = RaceIdCount, !.streams = RaceStreams,
     !.handlers = RaceHandlers, !.requests = RaceRequests]
GridProfile ==
  [Profile(0, 0, 0, 0, 0, 0, 0, GridKeys) EXCEPT
     !.sids = GridIdCount, !.streams = GridStreams, !.grids = GridCount]
LayoutProfile == [Profile(0, 0, 0, 0, 0, 0, 0, 0) EXCEPT !.tiles = LayoutTiles]
StoreProfile ==
  [Profile(0, 0, 0, 0, StoreCallers, StoreHeaders, StoreRoutes, StoreKeys) EXCEPT
     !.sids = StoreIdCount, !.streams = StoreStreams, !.chats = StoreChats,
     !.handlers = StoreHandlers, !.requests = StoreRequests]
NoObj == 0
NoProc == 0
NoPort == 0

VARIABLES
  lim,         \* the scenario size of this run (never changes)
  streams,     \* RTSPService.streams: the Map, as its entries in insertion order
  objs,        \* every RTSPStream object ever created (closures keep them alive)
  procs,       \* every ffmpeg child process ever spawned, with its poll loop
  timers,      \* objects with a pending retry setTimeout
  usedPorts,   \* RTSPService.usedPorts
  dirs,        \* per output directory: "none", "empty" or "playlist"
  calls,       \* the startStream / stopStream invocations and where each is suspended
  quit,        \* the before-quit handler: its position and stopAllStreams' id list
  windowOpen,  \* BrowserWindow.getAllWindows().length > 0
  appExited,   \* the application process has terminated
  authConfig,  \* apiAuth.ts authConfig: [apiKey, enabled]
  apiServer,   \* "down" (server = null), "up" (listening) or "closing" (server.close called)
  closers,     \* the stopApiServer calls waiting for the server's 'close' event
  hits,        \* the limiter's store: requests counted per caller address in its window
  lastRes,     \* the response to the latest control-API request
  handlers,    \* the stream-route handlers in flight: position, request, reply
  segRes,      \* the latest request to the segment server and its response
  settings,    \* the renderer's settings: [apiKey, apiEnabled]
  apiServerRunning, \* SettingsDialog's apiServerRunning state
  keysMade,    \* how many keys generateApiKey has returned
  regenPending, \* handleGenerateApiKey calls awaiting restartApiServer
  regenDone,   \* a handleGenerateApiKey call has returned from restartApiServer
  solverIn,    \* the arguments of a chooseLayouts call: [ids, maxRows]
  solverOut,   \* what the latest chooseLayouts call returned
  solverCalls, \* how many times chooseLayouts was called (capped)
  store,       \* the renderer's zustand store (useStreamStore state)
  grid         \* the store's grid management fields, its calls in flight, the saved grids

rtspVars == <<lim, streams, objs, procs, timers, usedPorts, dirs, calls>>
quitVars == <<quit, windowOpen, appExited>>
apiVars == <<authConfig, apiServer, closers, hits, lastRes, handlers, segRes>>
dialogVars == <<settings, apiServerRunning, keysMade, regenPending, regenDone>>
solverVars == <<solverIn, solverOut, solverCalls>>
rendererVars == <<dialogVars, solverVars, store, grid>>
vars == <<lim, streams, objs, procs, timers, usedPorts, dirs, calls, quit, windowOpen, appExited,
          authConfig, apiServer, closers, hits, lastRes, handlers, segRes,
          settings, apiServerRunning, keysMade, regenPending, regenDone,
          solverIn, solverOut, solverCalls, store, grid>>

StreamIds == 1..lim.ids
\* Slot 0 carries the stopStream calls of stopAllStreams; the other slots the
\* rtspStartStream / rtspStopStream IPC calls, each slot used once.
IpcCalls == 1..lim.calls
CallIds == 0..lim.calls

\* ------------------------------------------------------------ helpers
Min(S) == CHOOSE x \in S : \A y \in S : x <= y

\* path.join(this.tempDir, streamId)
OutputDir(sid) == <<"streamgrid-rtsp", sid>>

\* `http://localhost:${basePort}/rtsp/${streamId}/playlist.m3u8`
PlaybackUrl(sid) == <<"http://localhost", basePort, "rtsp", sid, "playlist.m3u8">>

NoUrl == <<>>
NoResult == [success |-> FALSE, url |-> NoUrl, port |-> NoPort, error |-> "pending"]
StartOk(sid, port) == [success |-> TRUE, url |-> PlaybackUrl(sid), port |-> port, error |-> ""]
Failure(msg) == [success |-> FALSE, url |-> NoUrl, port |-> NoPort, error |-> msg]
StopOk == [success |-> TRUE, url |-> NoUrl, port |-> NoPort, error |-> ""]

IdleCall == [kind |-> "none", sid |-> 0, pc |-> "idle", obj |-> NoObj, res |-> NoResult]

\* Map.has / Map.get / Map.set / Map.delete / Map.keys on the entry sequence
HasStream(m, sid) == \E i \in DOMAIN m : m[i].id = sid
GetStream(m, sid) ==
  IF HasStream(m, sid) THEN m[CHOOSE i \in DOMAIN m : m[i].id = sid].obj ELSE NoObj
SetStream(m, sid, o) ==
  IF HasStream(m, sid)
    THEN [i \in DOMAIN m |-> IF m[i].id = sid THEN [id |-> sid, obj |-> o] ELSE m[i]]
    ELSE Append(m, [id |-> sid, obj |-> o])
DeleteStream(m, sid) == SelectSeq(m, LAMBDA e : e.id # sid)
StreamKeys(m) == [i \in DOMAIN m |-> m[i].id]

\* findAvailablePort: the first basePort + i not in usedPorts, NoPort for the throw
FindAvailablePort(used) ==
  LET free == {i \in 0..(portScanAttempts - 1) : (basePort + i) \notin used}
  IN IF free = {} THEN NoPort ELSE basePort + Min(free)

Alive(p) == procs[p].st = "alive"

\* No chooseLayouts call under way
NoSolverIn == [ids |-> <<>>, maxRows |-> 0]
NotCalled == <<"not called">>

\* createInitialState().settings: apiKey '' and apiEnabled false
InitialSettings == [apiKey |-> <<>>, apiEnabled |-> FALSE]

\* What a saved grid holds of the store
Content(state) == [streams |-> state.streams, layout |-> state.layout, chats |-> state.chats]
EmptyContent == [streams |-> <<>>, layout |-> <<>>, chats |-> <<>>]
\* A grid file: absent, or a grid's name and content
GridFile(name, content) == [present |-> TRUE, name |-> name, content |-> content]
NoGrid == [present |-> FALSE, name |-> "", content |-> EmptyContent]
\* A saveCurrentGrid call: idle, or suspended in "load" (window.api.loadGrid
\* of the existing grid) or "write" (window.api.saveGrid) with its savedGrid
NoSave == [pc |-> "idle", id |-> 0, name |-> "", content |-> EmptyContent]
\* The grid fields of createInitialState()
InitialGridFields ==
  [currentGridId |-> 0, currentGridName |-> "Untitled Grid", recentGridIds |-> <<>>,
   isSaving |-> FALSE]
\* currentGridId null is 0; save, load and del are the saveCurrentGrid,
\* loadGrid and deleteGrid calls awaiting an IPC reply; disk is the grid
\* files; clean is the content last written by saveCurrentGrid or read by
\* loadGrid
InitialGrid(profile) ==
  [fields |-> InitialGridFields, save |-> NoSave, load |-> 0, del |-> 0,
   disk |-> [g \in 1..profile.grids |-> NoGrid], clean |-> EmptyContent]

\* createInitialState(): the store's fields the model follows
createInitialState ==
  [streams |-> <<>>, layout |-> <<>>, chats |-> <<>>, hasUnsavedChanges |-> FALSE]

\* Init: the service after construction, no stream started, the window open
InitWith(profile) ==
  /\ lim = profile
  /\ streams = <<>>
  /\ objs = <<>>
  /\ procs = <<>>
  /\ timers = {}
  /\ usedPorts = {}
  /\ dirs = [s \in StreamIds |-> "none"]
  /\ calls = [c \in CallIds |-> IdleCall]
  /\ quit = [pc |-> "idle", queue |-> <<>>]
  /\ windowOpen = TRUE
  /\ appExited = FALSE

\* A request GET /rtsp/<sid>/<file> to the segment server, the handler that
\* answered it, and the answer
SegRes(sid, file, handler, status, body) ==
  [sid |-> sid, file |-> file, handler |-> handler, status |-> status, body |-> body]
NoSegRes == SegRes(0, "", "none", 0, "")

\* A route handler of the control API between its steps: pc is where it is
\* suspended, id and body the request's :id and body, stream the POST
\* handler's newStream, found what the existence check read, res what it sent
Handler(pc, route, id, body, stream, found, res) ==
  [pc |-> pc, route |-> route, id |-> id, body |-> body, stream |-> stream,
   found |-> found, res |-> res]
Reply(status, body) == [status |-> status, body |-> body]
NoReply == Reply(0, <<>>)
Idle == Handler("idle", <<>>, 0, <<>>, <<>>, FALSE, NoReply)

\* apiAuth.ts: authConfig = { apiKey: '', enabled: false }; apiServer.ts: server = null
ApiInitWithSolver(profile, config, server, in) ==
  /\ InitWith(profile)
  /\ authConfig = config
  /\ apiServer = server
  /\ closers = <<>>
  /\ hits = [ip \in 1..profile.callers |-> 0]
  /\ lastRes = [ip |-> 0, status |-> 0, stage |-> "none"]
  /\ handlers = [n \in 1..profile.handlers |-> Idle]
  /\ segRes = NoSegRes
  /\ settings = InitialSettings
  /\ apiServerRunning = FALSE
  /\ keysMade = 0
  /\ regenPending = 0
  /\ regenDone = FALSE
  /\ solverIn = in
  /\ solverOut = NotCalled
  /\ solverCalls = 0
  /\ store = createInitialState
  /\ grid = InitialGrid(profile)

ApiInitWith(profile, config, server) == ApiInitWithSolver(profile, config, server, NoSolverIn)

DefaultAuthConfig == [apiKey |-> <<>>, enabled |-> FALSE]

Init ==
  \/ ApiInitWith(ConcProfile, DefaultAuthConfig, "down")
  \/ ApiInitWith(RetryProfile, DefaultAuthConfig, "down")

QuitInit == ApiInitWith(QuitProfile, DefaultAuthConfig, "down")

\* ----------------------------------------------------- spawnFFmpeg
\* spawnFFmpeg up to its first await: spawn the child, store the handle in the
\* stream object, install the handlers, start the playlist poll.  `caller` is
\* the startStream call awaiting the poll (0 for a retry's floating call).
NewProc(o, caller) ==
  [obj |-> o, st |-> "alive", signalled |-> FALSE,
   polling |-> TRUE, attempts |-> 0, caller |-> caller]

SpawnedProcs(ps, o, caller) == Append(ps, NewProc(o, caller))

\* ----------------------------------------------------- startStream
\* startStream without its presence check
StartCallUnchecked(c, sid) ==
  /\ ~appExited
  /\ calls[c].pc = "idle"
  /\ \A d \in IpcCalls : d < c => calls[d].pc # "idle"
  /\ calls' = [calls EXCEPT ![c] =
       [kind |-> "start", sid |-> sid, pc |-> "probe", obj |-> NoObj, res |-> NoResult]]
  /\ UNCHANGED <<lim, streams, objs, procs, timers, usedPorts, dirs, quitVars, apiVars, rendererVars>>

\* startStream up to its first await: the presence check, then the probe
StartCall(c, sid) ==
  /\ ~appExited
  /\ calls[c].pc = "idle"
  /\ \A d \in IpcCalls : d < c => calls[d].pc # "idle"
  /\ IF HasStream(streams, sid)
       THEN calls' = [calls EXCEPT ![c] =
              [kind |-> "start", sid |-> sid, pc |-> "done", obj |-> NoObj,
               res |-> StartOk(sid, objs[GetStream(streams, sid)].port)]]
       ELSE calls' = [calls EXCEPT ![c] =
              [kind |-> "start", sid |-> sid, pc |-> "probe", obj |-> NoObj,
               res |-> NoResult]]
  /\ UNCHANGED <<lim, streams, objs, procs, timers, usedPorts, dirs, quitVars, apiVars, rendererVars>>

\* startStream going on whatever checkFfmpeg reports
StartProbeIgnored(c, available) ==
  /\ ~appExited
  /\ calls[c].kind = "start" /\ calls[c].pc = "probe"
  /\ calls' = [calls EXCEPT ![c].pc = "mkdir"]
  /\ UNCHANGED <<lim, streams, objs, procs, timers, usedPorts, dirs, quitVars, apiVars, rendererVars>>

\* checkFfmpeg resolves; unavailable returns the failure before anything is created
StartProbe(c, available) ==
  /\ ~appExited
  /\ calls[c].kind = "start" /\ calls[c].pc = "probe"
  /\ IF available
       THEN calls' = [calls EXCEPT ![c].pc = "mkdir"]
       ELSE calls' = [calls EXCEPT ![c].pc = "done",
                         ![c].res = Failure("FFmpeg is not installed or not found in PATH")]
  /\ UNCHANGED <<lim, streams, objs, procs, timers, usedPorts, dirs, quitVars, apiVars, rendererVars>>

\* fs.mkdir resolves: reserve the port, create the stream object, put it in the
\* map, run spawnFFmpeg up to the poll's first fs.access
StartRegister(c) ==
  /\ ~appExited
  /\ calls[c].kind = "start" /\ calls[c].pc = "mkdir"
  /\ Len(objs) < lim.objs /\ Len(procs) < lim.procs
  /\ LET sid == calls[c].sid
         port == FindAvailablePort(usedPorts)
         o == Len(objs) + 1
         p == Len(procs) + 1
         created == IF dirs[sid] = "none" THEN "empty" ELSE dirs[sid]
     IN /\ dirs' = [dirs EXCEPT ![sid] = created]
        /\ IF port = NoPort
             THEN /\ calls' = [calls EXCEPT ![c].pc = "done",
                                  ![c].res = Failure("No available ports")]
                  /\ UNCHANGED <<streams, objs, procs, usedPorts>>
             ELSE /\ usedPorts' = usedPorts \cup {port}
                  /\ objs' = Append(objs,
                       [id |-> sid, outputDir |-> OutputDir(sid), port |-> port,
                        ffmpegProcess |-> p, status |-> "starting",
                        errorCount |-> 0, retryCount |-> 0])
                  /\ streams' = SetStream(streams, sid, o)
                  /\ procs' = SpawnedProcs(procs, o, c)
                  /\ calls' = [calls EXCEPT ![c].pc = "poll", ![c].obj = o]
  /\ UNCHANGED <<lim, timers, quitVars, apiVars, rendererVars>>

\* One round of the playlist poll of process p's spawnFFmpeg call: fs.access
\* succeeds (status running, return) or fails (sleep, attempts++, and after
\* the last round status error, return).  A startStream awaiting it then returns.
PollFinished(c, sid) ==
  [calls EXCEPT ![c].pc = "done", ![c].res = StartOk(sid, basePort)]

PollAccess(p) ==
  /\ ~appExited
  /\ p \in DOMAIN procs /\ procs[p].polling
  /\ LET o == procs[p].obj
         sid == objs[o].id
         found == dirs[sid] = "playlist"
         last == procs[p].attempts + 1 >= PollRounds
         c == procs[p].caller
     IN /\ procs' = [procs EXCEPT ![p].polling = ~(found \/ last),
                                  ![p].attempts = IF found THEN @ ELSE @ + 1]
        /\ objs' = IF found THEN [objs EXCEPT ![o].status = "running"]
                   ELSE IF last THEN [objs EXCEPT ![o].status = "error"]
                   ELSE objs
        /\ calls' = IF (found \/ last) /\ c # 0 THEN PollFinished(c, sid) ELSE calls
  /\ UNCHANGED <<lim, streams, timers, usedPorts, dirs, quitVars, apiVars, rendererVars>>

\* ------------------------------------------------ the child process
\* ffmpeg writes playlist.m3u8 into its output directory
ProcWritePlaylist(p) ==
  /\ ~appExited
  /\ p \in DOMAIN procs /\ Alive(p)
  /\ dirs[objs[procs[p].obj].id] = "empty"
  /\ dirs' = [dirs EXCEPT ![objs[procs[p].obj].id] = "playlist"]
  /\ UNCHANGED <<lim, streams, objs, procs, timers, usedPorts, calls, quitVars, apiVars, rendererVars>>

\* The 'exit' handler.  how: "exited" (code 0, or code null: ended by a
\* signal) or "crashed" (a non-zero code: errorCount++, status error, and a
\* retry timer while retryCount < maxRetries).
ExitHandler(os, o, how) ==
  IF how = "crashed"
    THEN [os EXCEPT ![o].errorCount = @ + 1,
                    ![o].status = "error",
                    ![o].retryCount = IF @ < maxRetries THEN @ + 1 ELSE @]
    ELSE os

RetryScheduled(os, o, how) == how = "crashed" /\ os[o].retryCount < maxRetries

ProcExit(p, how) ==
  /\ ~appExited
  /\ p \in DOMAIN procs /\ Alive(p)
  /\ procs' = [procs EXCEPT ![p].st = how]
  /\ objs' = ExitHandler(objs, procs[p].obj, how)
  /\ timers' = IF RetryScheduled(objs, procs[p].obj, how)
                 THEN timers \cup {procs[p].obj} ELSE timers
  /\ UNCHANGED <<lim, streams, usedPorts, dirs, calls, quitVars, apiVars, rendererVars>>

\* The 'error' handler (the child could not be run; no 'exit' follows):
\* status error, errorCount++
ProcError(p) ==
  /\ ~appExited
  /\ p \in DOMAIN procs /\ Alive(p) /\ ~procs[p].signalled
  /\ procs' = [procs EXCEPT ![p].st = "exited"]
  /\ objs' = [objs EXCEPT ![procs[p].obj].status = "error",
                          ![procs[p].obj].errorCount = @ + 1]
  /\ UNCHANGED <<lim, streams, timers, usedPorts, dirs, calls, quitVars, apiVars, rendererVars>>

\* The retry setTimeout fires: spawnFFmpeg(stream) on the captured object
RetryTimer(o) ==
  /\ ~appExited
  /\ o \in timers
  /\ Len(procs) < lim.procs
  /\ timers' = timers \ {o}
  /\ procs' = SpawnedProcs(procs, o, 0)
  /\ objs' = [objs EXCEPT ![o].ffmpegProcess = Len(procs) + 1]
  /\ UNCHANGED <<lim, streams, usedPorts, dirs, calls, quitVars, apiVars, rendererVars>>

\* ------------------------------------------------------ stopStream
\* stopStream up to its await: look the stream up, kill the process, clear
\* the handle, enter cleanupStream (which starts fs.rm on the output dir)
KillSent(ps, p) ==
  IF p # NoProc /\ ps[p].st = "alive" THEN [ps EXCEPT ![p].signalled = TRUE] ELSE ps

\* stopStream refusing a session another stop has already taken the handle of
StopBeginOnce(c, sid) ==
  IF HasStream(streams, sid) /\ objs[GetStream(streams, sid)].ffmpegProcess # NoProc
    THEN LET o == GetStream(streams, sid)
         IN /\ procs' = KillSent(procs, objs[o].ffmpegProcess)
            /\ objs' = [objs EXCEPT ![o].ffmpegProcess = NoProc]
            /\ calls' = [calls EXCEPT ![c] =
                 [kind |-> "stop", sid |-> sid, pc |-> "rm", obj |-> o, res |-> NoResult]]
    ELSE /\ calls' = [calls EXCEPT ![c] =
                 [kind |-> "stop", sid |-> sid, pc |-> "done", obj |-> NoObj,
                  res |-> Failure("Stream not found")]]
         /\ UNCHANGED <<objs, procs>>

StopBegin(c, sid) ==
  IF HasStream(streams, sid)
    THEN LET o == GetStream(streams, sid)
         IN /\ procs' = KillSent(procs, objs[o].ffmpegProcess)
            /\ objs' = [objs EXCEPT ![o].ffmpegProcess = NoProc]
            /\ calls' = [calls EXCEPT ![c] =
                 [kind |-> "stop", sid |-> sid, pc |-> "rm", obj |-> o, res |-> NoResult]]
    ELSE /\ calls' = [calls EXCEPT ![c] =
                 [kind |-> "stop", sid |-> sid, pc |-> "done", obj |-> NoObj,
                  res |-> Failure("Stream not found")]]
         /\ UNCHANGED <<objs, procs>>

StopCall(c, sid) ==
  /\ ~appExited
  /\ c \in IpcCalls
  /\ calls[c].pc = "idle"
  /\ \A d \in IpcCalls : d < c => calls[d].pc # "idle"
  /\ StopBegin(c, sid)
  /\ UNCHANGED <<lim, streams, timers, usedPorts, dirs, quitVars, apiVars, rendererVars>>

\* fs.rm resolves: the directory is gone; then the entry is deleted from the
\* map and the port released, and stopStream returns success
\* fs.rm of the whole temp directory instead of the session's own
RemovedTempDir(ds, sid) == [d \in DOMAIN ds |-> "none"]

RemovedDir(ds, sid) == [ds EXCEPT ![sid] = "none"]

StopFinish(c) ==
  /\ ~appExited
  /\ calls[c].kind = "stop" /\ calls[c].pc = "rm"
  /\ dirs' = RemovedDir(dirs, calls[c].sid)
  /\ streams' = DeleteStream(streams, calls[c].sid)
  /\ usedPorts' = usedPorts \ {objs[calls[c].obj].port}
  /\ calls' = [calls EXCEPT ![c].pc = "done", ![c].res = StopOk]
  /\ UNCHANGED <<lim, objs, procs, timers, quitVars, apiVars, rendererVars>>

\* ------------------------------------------------- application quit
\* app.quit(): Electron emits before-quit; the handler prevents the quit when
\* a window is open and starts stopAllStreams, else the application exits
BeforeQuit ==
  IF windowOpen
    THEN /\ quit' = [pc |-> "stopping", queue |-> StreamKeys(streams)]
         /\ UNCHANGED <<windowOpen, appExited>>
    ELSE /\ appExited' = TRUE
         /\ UNCHANGED <<quit, windowOpen>>

\* The user asks the application to quit
UserQuit ==
  /\ ~appExited /\ quit.pc = "idle"
  /\ BeforeQuit
  /\ UNCHANGED <<rtspVars, apiVars, rendererVars>>

\* The user closes the window; window-all-closed calls app.quit() unless the
\* platform is darwin, and before-quit then finds no window to wait for
CloseWindow(darwin) ==
  /\ ~appExited /\ windowOpen
  /\ windowOpen' = FALSE
  /\ appExited' = ~darwin
  /\ UNCHANGED <<rtspVars, quit, apiVars, rendererVars>>

\* stopAllStreams: the next `await this.stopStream(streamId)` of the loop
QuitStopNext ==
  /\ ~appExited /\ quit.pc = "stopping"
  /\ calls[0].pc \in {"idle", "done"}
  /\ quit.queue # <<>>
  /\ StopBegin(0, Head(quit.queue))
  /\ quit' = [quit EXCEPT !.queue = Tail(@)]
  /\ UNCHANGED <<lim, streams, timers, usedPorts, dirs, windowOpen, appExited, apiVars, rendererVars>>

\* stopAllStreams returned: send app-before-quit to the windows, arm the timer
QuitArmTimer ==
  /\ ~appExited /\ quit.pc = "stopping"
  /\ calls[0].pc \in {"idle", "done"}
  /\ quit.queue = <<>>
  /\ quit' = [quit EXCEPT !.pc = "grace"]
  /\ UNCHANGED <<rtspVars, windowOpen, appExited, apiVars, rendererVars>>

\* The 1000 ms timer fires: app.quit() again
GraceTimer ==
  /\ ~appExited /\ quit.pc = "grace"
  /\ BeforeQuit
  /\ UNCHANGED <<rtspVars, apiVars, rendererVars>>

\* The supervisor's operations and the child processes' events
SupervisorNext ==
  \/ \E c \in IpcCalls, sid \in StreamIds : StartCall(c, sid)
  \/ \E c \in IpcCalls, a \in BOOLEAN : StartProbe(c, a)
  \/ \E c \in IpcCalls : StartRegister(c)
  \/ \E p \in DOMAIN procs : PollAccess(p)
  \/ \E p \in DOMAIN procs : ProcWritePlaylist(p)
  \/ \E p \in DOMAIN procs, how \in {"exited", "crashed"} : ProcExit(p, how)
  \/ \E p \in DOMAIN procs : ProcError(p)
  \/ \E o \in DOMAIN objs : RetryTimer(o)
  \/ \E c \in IpcCalls, sid \in StreamIds : StopCall(c, sid)
  \/ \E c \in CallIds : StopFinish(c)

QuitNext ==
  \/ UserQuit
  \/ \E darwin \in BOOLEAN : CloseWindow(darwin)
  \/ QuitStopNext
  \/ QuitArmTimer
  \/ GraceTimer

Next == SupervisorNext

\* The supervisor under IPC calls and child-process events
Spec == Init /\ [][Next]_vars

AppNext == SupervisorNext \/ QuitNext

\* The supervisor together with the application's quit hook
QuitSpec == QuitInit /\ [][AppNext]_vars

\* ------------------------------------------------------ control API
\* Header values and keys are strings, written as sequences of tokens.
Absent == [present |-> FALSE, value |-> <<>>]
Header(v) == [present |-> TRUE, value |-> v]
Headers(x, a) == [xApiKey |-> x, authorization |-> a]
K1 == <<"k1">>
K2 == <<"k2">>
K1x == <<"k1", "x">>
Bearer == "Bearer "

\* The header forms a request may carry
AllHeaders ==
  << Headers(Absent, Absent),
     Headers(Header(K1), Absent),
     Headers(Header(K2), Absent),
     Headers(Absent, Header(<<Bearer>> \o K1)),
     Headers(Absent, Header(<<Bearer>> \o K2)),
     Headers(Absent, Header(K1)),
     Headers(Header(<<>>), Header(<<Bearer>> \o K1)),
     Headers(Header(K2), Header(<<Bearer>> \o K1)),
     Headers(Absent, Header(<<Bearer>>)),
     Headers(Header(K1x), Absent),
     Headers(Header(<<>>), Absent) >>

\* The keys a configuration may hold: none (the default ''), K1, and K1x,
\* of which K1 is a proper prefix
ConfigKeys == {<<>>, K1, K1x}
AuthConfigs == [apiKey : ConfigKeys, enabled : BOOLEAN]

Route(method, path) == [method |-> method, path |-> path]
\* createApp's routes, then two paths no route matches
AllRoutes ==
  << Route("GET", <<"api", "streams">>),
     Route("GET", <<"api", "health">>),
     Route("GET", <<"health">>),
     Route("POST", <<"api", "streams">>),
     Route("PUT", <<"api", "streams", ":id">>),
     Route("DELETE", <<"api", "streams", ":id">>),
     Route("GET", <<"api", "grids">>),
     Route("POST", <<"api", "grids">>),
     Route("PUT", <<"api", "grids", ":id", "load">>),
     Route("GET", <<"api", "unknown">>),
     Route("GET", <<"unknown">>) >>

FirstOf(seq, n) == {seq[i] : i \in 1..(IF n < Len(seq) THEN n ELSE Len(seq))}
Callers == 1..lim.callers
RequestHeaders == FirstOf(AllHeaders, lim.headers)
RequestRoutes == FirstOf(AllRoutes, lim.routes)

\* expressApp.get('/health', healthCheck), expressApp.get('/api/health', healthCheck)
HealthRoutes == {Route("GET", <<"health">>), Route("GET", <<"api", "health">>)}
\* the routes registered with authenticateApiKey
GatedRoutes ==
  {Route("GET", <<"api", "streams">>), Route("POST", <<"api", "streams">>),
   Route("PUT", <<"api", "streams", ":id">>), Route("DELETE", <<"api", "streams", ":id">>),
   Route("GET", <<"api", "grids">>), Route("POST", <<"api", "grids">>),
   Route("PUT", <<"api", "grids", ":id", "load">>)}
\* expressApp.use('/api', limiter): the paths the limiter is mounted on
UnderApi(route) == route.path[1] = "api"

\* String.prototype.replace(tok, ''): drop the first occurrence of tok
ReplaceFirst(str, tok) ==
  IF \E i \in DOMAIN str : str[i] = tok
    THEN LET k == Min({i \in DOMAIN str : str[i] = tok})
         IN SubSeq(str, 1, k - 1) \o SubSeq(str, k + 1, Len(str))
    ELSE str

\* req.headers['x-api-key'] || req.headers['authorization']?.replace('Bearer ', '')
ProvidedKey(h) ==
  IF h.xApiKey.present /\ h.xApiKey.value # <<>>
    THEN h.xApiKey
    ELSE IF h.authorization.present
           THEN Header(ReplaceFirst(h.authorization.value, Bearer))
           ELSE Absent

\* authenticateApiKey: the status it answers with, or 0 for next()
AuthKeyFirst(config, h) ==
  LET key == ProvidedKey(h)
  IN IF ~key.present \/ key.value = <<>> THEN 401
     ELSE IF key.value # config.apiKey THEN 403
     ELSE IF ~config.enabled THEN 503
     ELSE 0

authenticateApiKey(config, h) ==
  LET key == ProvidedKey(h)
  IN IF ~config.enabled THEN 503
     ELSE IF ~key.present \/ key.value = <<>> THEN 401
     ELSE IF key.value # config.apiKey THEN 403
     ELSE 0

\* express-rate-limit, max: 100: a request is refused when the caller's
\* count, this request included, exceeds max
RateLimitedOffByOne(count) == count >= rateMax

RateLimited(count) == count > rateMax

\* The hit counter saturates one above the ceiling (every count above it
\* is refused alike).
Counted(count) == IF count > rateMax THEN count ELSE count + 1

Response(ip, status, stage) == [ip |-> ip, status |-> status, stage |-> stage]

\* createApp's middleware chain for one request: the limiter on /api, the
\* health routes, the gated routes (authenticateApiKey, then the route's
\* handler), the final 404
Respond(ip, route, h, count) ==
  IF UnderApi(route) /\ RateLimited(count) THEN Response(ip, 429, "limiter")
  ELSE IF route \in HealthRoutes THEN Response(ip, 200, "health")
  ELSE IF route \in GatedRoutes
    THEN IF authenticateApiKey(authConfig, h) # 0
           THEN Response(ip, authenticateApiKey(authConfig, h), "auth")
           ELSE Response(ip, 0, "handler")
  ELSE Response(ip, 404, "notFound")

ApiRequest(ip, route, h) ==
  /\ apiServer \in {"up", "closing"}
  /\ hits' = IF UnderApi(route) THEN [hits EXCEPT ![ip] = Counted(@)] ELSE hits
  /\ lastRes' = Respond(ip, route, h, hits'[ip])
  /\ UNCHANGED <<rtspVars, quitVars, segRes, handlers, rendererVars, authConfig, apiServer, closers>>

\* The limiter's 15-minute window of a caller ends
WindowReset(ip) ==
  /\ apiServer \in {"up", "closing"}
  /\ hits[ip] > 0
  /\ hits' = [hits EXCEPT ![ip] = 0]
  /\ UNCHANGED <<rtspVars, quitVars, segRes, handlers, rendererVars, authConfig, apiServer, closers, lastRes>>

\* startApiServer(config): nothing when running or when config.enabled is
\* false; else updateAuthConfig, createApp (a new limiter), listen
ApiStart(config) ==
  /\ apiServer = "down"
  /\ IF config.enabled
       THEN /\ authConfig' = [apiKey |-> config.apiKey, enabled |-> config.enabled]
            /\ hits' = [ip \in DOMAIN hits |-> 0]
            /\ apiServer' = "up"
       ELSE UNCHANGED <<authConfig, hits, apiServer>>
  /\ UNCHANGED <<rtspVars, quitVars, segRes, handlers, rendererVars, closers, lastRes>>

\* A stopApiServer call waiting for 'close': what resumes when it resolves
\* ("stop": nothing; "restart": restartApiServer goes on to startApiServer
\* with key), and whether handleGenerateApiKey / handleApiEnabledChange(false)
\* awaits it
Closer(kind, key, regen, disable) ==
  [kind |-> kind, key |-> key, regen |-> regen, disable |-> disable]

\* stopApiServer up to its promise: server.close(callback) stops the server
\* accepting connections; connections already open are served until they
\* end.  The callback of a close() made while the server is already closing
\* is called with an error when 'close' is emitted.
StopApiServer(closer) ==
  /\ apiServer \in {"up", "closing"}
  /\ Len(closers) < MaxClosers
  /\ apiServer' = "closing"
  /\ closers' = Append(closers, closer)

\* startApiServer(config) with server = null and config.enabled: updateAuthConfig,
\* createApp (a new limiter), listen
Listening(key) ==
  /\ authConfig' = [apiKey |-> key, enabled |-> TRUE]
  /\ hits' = [ip \in DOMAIN hits |-> 0]
  /\ apiServer' = "up"

\* stopApiServer called on the running server
ApiStop ==
  /\ apiServer = "up"
  /\ StopApiServer(Closer("stop", <<>>, FALSE, FALSE))
  /\ UNCHANGED <<rtspVars, quitVars, segRes, handlers, rendererVars, authConfig, hits, lastRes>>

\* The callers of the closers
RegensIn(cs) == Cardinality({i \in DOMAIN cs : cs[i].regen})
DisablesIn(cs) == \E i \in DOMAIN cs : cs[i].disable

\* The server's last connection has ended: 'close' is emitted.  The first
\* close() callback sets server = null and resolves, the later ones reject;
\* a restartApiServer whose stop resolved goes on to startApiServer.
ServerClosed ==
  /\ apiServer = "closing"
  /\ IF Head(closers).kind = "restart"
       THEN Listening(Head(closers).key)
       ELSE apiServer' = "down" /\ UNCHANGED <<authConfig, hits>>
  /\ closers' = <<>>
  /\ regenPending' = regenPending - RegensIn(closers)
  /\ regenDone' = (regenDone \/ RegensIn(closers) > 0)
  /\ apiServerRunning' = (apiServerRunning /\ ~DisablesIn(closers))
  /\ UNCHANGED <<rtspVars, quitVars, segRes, handlers, lastRes, settings, keysMade, solverVars, store, grid>>

GateNext ==
  \/ \E ip \in Callers, r \in RequestRoutes, h \in RequestHeaders : ApiRequest(ip, r, h)
  \/ \E ip \in Callers : WindowReset(ip)

\* The auth gate as a function of (authConfig, request): authConfig ranges
\* over every value updateAuthConfig can install
GateInit == \E config \in AuthConfigs : ApiInitWith(GateProfile, config, "up")
GateSpec == GateInit /\ [][GateNext]_vars

ApiNext ==
  \/ GateNext
  \/ \E config \in AuthConfigs : ApiStart(config)
  \/ ApiStop
  \/ ServerClosed

\* The control API server from its construction
ApiInit == ApiInitWith(RateProfile, DefaultAuthConfig, "down")
ApiSpec == ApiInit /\ [][ApiNext]_vars

\* ------------------------------------------------- settings dialog
\* generateApiKey: 32 random bytes, so every key returned is new; the n-th
\* key is the n-th of KeyPool
KeyPool == <<K1, K2, K1x>>
KeysLeft == keysMade < Len(KeyPool) /\ keysMade < lim.keys

\* restartApiServer(config) with config.enabled, up to its first suspension:
\* stopApiServer returns at once when server = null and startApiServer runs;
\* else the call waits for 'close'
RestartApiServer(key, regen) ==
  IF apiServer = "down"
    THEN /\ Listening(key)
         /\ UNCHANGED closers
    ELSE /\ StopApiServer(Closer("restart", key, regen, FALSE))
         /\ UNCHANGED <<authConfig, hits>>

\* handleGenerateApiKey: generateApiKey, updateSettings({ apiKey: newKey }),
\* and restartApiServer when settings.apiEnabled && apiServerRunning
HandleGenerateApiKey ==
  /\ KeysLeft
  /\ keysMade' = keysMade + 1
  /\ settings' = [settings EXCEPT !.apiKey = KeyPool[keysMade + 1]]
  /\ IF settings.apiEnabled /\ apiServerRunning
       THEN /\ RestartApiServer(KeyPool[keysMade + 1], TRUE)
            /\ regenPending' = IF apiServer = "down" THEN regenPending ELSE regenPending + 1
            /\ regenDone' = (regenDone \/ apiServer = "down")
       ELSE UNCHANGED <<authConfig, apiServer, closers, hits, regenPending, regenDone>>
  /\ UNCHANGED <<rtspVars, quitVars, segRes, handlers, lastRes, apiServerRunning, solverVars, store, grid>>

\* handleApiEnabledChange(true): updateSettings({ apiEnabled: true }), a key
\* is generated when settings has none, startApiServer (which returns at once
\* while server is set), setApiServerRunning(true)
HandleApiEnabled ==
  /\ ~settings.apiEnabled
  /\ settings.apiKey # <<>> \/ KeysLeft
  /\ LET key == IF settings.apiKey # <<>> THEN settings.apiKey ELSE KeyPool[keysMade + 1]
     IN /\ settings' = [apiKey |-> key, apiEnabled |-> TRUE]
        /\ keysMade' = IF settings.apiKey # <<>> THEN keysMade ELSE keysMade + 1
        /\ IF apiServer = "down"
             THEN Listening(key)
             ELSE UNCHANGED <<authConfig, hits, apiServer>>
  /\ apiServerRunning' = TRUE
  /\ UNCHANGED <<rtspVars, quitVars, segRes, handlers, lastRes, closers, regenPending, regenDone, solverVars, store, grid>>

\* handleApiEnabledChange(false): updateSettings({ apiEnabled: false }),
\* stopApiServer, and setApiServerRunning(false) once it has returned
HandleApiDisabled ==
  /\ settings.apiEnabled
  /\ settings' = [settings EXCEPT !.apiEnabled = FALSE]
  /\ IF apiServer = "down"
       THEN /\ apiServerRunning' = FALSE
            /\ UNCHANGED <<apiServer, closers>>
       ELSE /\ StopApiServer(Closer("stop", <<>>, FALSE, TRUE))
            /\ UNCHANGED apiServerRunning
  /\ UNCHANGED <<rtspVars, quitVars, segRes, handlers, lastRes, authConfig, hits, keysMade, regenPending, regenDone,
                 solverVars, store, grid>>

KeyNext ==
  \/ GateNext
  \/ HandleGenerateApiKey
  \/ HandleApiEnabled
  \/ HandleApiDisabled
  \/ ServerClosed

\* The control API server driven by the settings dialog
KeyInit == ApiInitWith(KeyProfile, DefaultAuthConfig, "down")
KeySpec == KeyInit /\ [][KeyNext]_vars

\* ------------------------------------------------- chooseLayouts
\* allowed = opts?.allowedWidths ?? [12, 8, 6, 4, 3, 2]
AllowedWidths == <<12, 8, 6, 4, 3, 2>>

Max2(a, b) == IF a >= b THEN a ELSE b
Min2(a, b) == IF a <= b THEN a ELSE b
Abs(a) == IF a >= 0 THEN a ELSE 0 - a
\* Math.ceil(a / b), Math.floor(a / b) for a >= 0, b > 0
CeilDiv(a, b) == (a + b - 1) \div b
\* Math.round(num / den): the nearest integer, halves upwards
RoundDiv(num, den) == (2 * num + den) \div (2 * den)

\* h = Math.max(2, Math.round(w / TARGET_ASPECT)), TARGET_ASPECT = 16 / 9
TileHeight(w) == Max2(2, RoundDiv(9 * w, 16))

\* One candidate of the loop over the allowed widths
Cand(w, n) ==
  LET cols == GRID_COLS \div w
      rows == CeilDiv(n, cols)
      h == TileHeight(w)
  IN [w |-> w, h |-> h, cols |-> cols, rows |-> rows,
      waste |-> cols * rows - n, totalH |-> rows * h]

\* score = sizeScore * 0.5 + wasteScore * 0.25 + balanceScore * 0.15 +
\* heightPenalty * 0.10, in twentieths: SizePart + FracNum / FracDen
SizePart(c) == 10 * c.w * c.h
FracDen(c) == (c.waste + 1) * (Abs(c.cols - c.rows) + 1) * (c.totalH + 1)
FracNum(c) ==
  5 * (Abs(c.cols - c.rows) + 1) * (c.totalH + 1)
  + 3 * (c.waste + 1) * (c.totalH + 1)
  + 2 * (c.waste + 1) * (Abs(c.cols - c.rows) + 1)

\* b.score > a.score.  The fraction parts lie between 0 and 10, so size parts
\* that differ (by 10 or more) decide; equal size parts leave the fractions.
ScoreGreater(b, a) ==
  IF SizePart(b) - SizePart(a) >= 10 THEN TRUE
  ELSE IF SizePart(b) - SizePart(a) <= -10 THEN FALSE
  ELSE FracNum(b) * FracDen(a) > FracNum(a) * FracDen(b)

\* pick = list.reduce((a, b) => (b.score > a.score ? b : a))
RECURSIVE Reduce(_, _)
Reduce(a, rest) ==
  IF rest = <<>> THEN a
  ELSE Reduce(IF ScoreGreater(Head(rest), a) THEN Head(rest) ELSE a, Tail(rest))

pick(list) == Reduce(Head(list), Tail(list))

\* all.sort((a, b) => a.w - b.w): ascending by width, stable
RECURSIVE SortByWidth(_)
SortByWidth(list) ==
  IF list = <<>> THEN <<>>
  ELSE LET least == Min({list[i].w : i \in DOMAIN list})
           first == Min({i \in DOMAIN list : list[i].w = least})
       IN <<list[first]>> \o
          SortByWidth(SubSeq(list, 1, first - 1) \o SubSeq(list, first + 1, Len(list)))

\* The candidates with cols >= 1, and those within the row budget
AllCands(n) ==
  LET ws == SelectSeq(AllowedWidths, LAMBDA w : GRID_COLS \div w >= 1)
  IN [i \in DOMAIN ws |-> Cand(ws[i], n)]
Feasible(n, maxRows) == SelectSeq(AllCands(n), LAMBDA c : c.totalH <= maxRows)

\* best: the best-scored candidate within the budget, else pick over all
\* the candidates sorted by width
BestCandOfAll(n, maxRows) == pick(AllCands(n))
BestCand(n, maxRows) ==
  IF Feasible(n, maxRows) # <<>>
    THEN pick(Feasible(n, maxRows))
    ELSE pick(SortByWidth(AllCands(n)))

GridItemFlushLeft(ids, best, k) ==
  [i |-> ids[k + 1], x |-> (k % best.cols) * best.w, y |-> (k \div best.cols) * best.h,
   w |-> best.w, h |-> best.h]
\* The k-th (from 0) placement the two loops push: row r holds
\* count = min(cols, n - r * cols) tiles, centred by offset
GridItem(ids, best, k) ==
  LET n == Len(ids)
      r == k \div best.cols
      c == k % best.cols
      count == Min2(best.cols, n - r * best.cols)
      offset == (GRID_COLS - count * best.w) \div 2
  IN [i |-> ids[k + 1], x |-> offset + c * best.w, y |-> r * best.h,
      w |-> best.w, h |-> best.h]

chooseLayoutsFirstRow(ids, maxRows) ==
  LET best == BestCand(Len(ids), maxRows)
  IN [k \in 1..Min2(Len(ids), best.cols) |-> GridItem(ids, best, k - 1)]
chooseLayoutsCounting(ids, maxRows) ==
  LET best == BestCand(Len(ids), maxRows - 20 * solverCalls)
  IN [k \in 1..Min2(Len(ids), best.rows * best.cols) |-> GridItem(ids, best, k - 1)]
\* chooseLayouts(ids, { maxRows }): the loops run while r < best.rows and k < n
chooseLayouts(ids, maxRows) ==
  LET best == BestCand(Len(ids), maxRows)
      placed == Min2(Len(ids), best.rows * best.cols)
  IN [k \in 1..placed |-> GridItem(ids, best, k - 1)]

\* The ordered id lists the solver is called with: n distinct ids, ascending
\* or descending
Ascending(n) == [k \in 1..n |-> k]
Descending(n) == [k \in 1..n |-> n + 1 - k]
\* The row budgets it is called with
RowBudgets == {0, 2, 7, 14, DefaultMaxRows, 40}
SolverInputs ==
  {[ids |-> ids, maxRows |-> m] :
     ids \in {Ascending(n) : n \in 0..lim.tiles} \cup {Descending(n) : n \in 0..lim.tiles},
     m \in RowBudgets}

\* A call chooseLayouts(ids, { maxRows }) with the arguments in solverIn
ChooseLayoutsCall ==
  /\ solverIn # NoSolverIn
  /\ solverOut' = chooseLayouts(solverIn.ids, solverIn.maxRows)
  /\ solverCalls' = Min2(solverCalls + 1, 2)
  /\ UNCHANGED <<rtspVars, quitVars, apiVars, dialogVars, solverIn, store, grid>>

LayoutNext == ChooseLayoutsCall

\* chooseLayouts as a function of its arguments
LayoutInit ==
  /\ lim = LayoutProfile
  /\ \E in \in SolverInputs : ApiInitWithSolver(LayoutProfile, DefaultAuthConfig, "down", in)
LayoutSpec == LayoutInit /\ [][LayoutNext]_vars

\* ------------------------------------------------------ the store
\* JSON values are held as their text: undefined, true, false
Undefined == "undefined"
True == "true"
False == "false"
\* A Stream: the fields the model follows
Stream(id, name, streamUrl, isMuted, fitMode) ==
  [id |-> id, name |-> name, streamUrl |-> streamUrl, isMuted |-> isMuted, fitMode |-> fitMode]
ChatItem(id, streamId, streamType, streamName) ==
  [id |-> id, streamId |-> streamId, streamType |-> streamType, streamName |-> streamName]

\* The stream ids and chat ids in use; chat ids follow the stream ids
StoreIds == 1..lim.sids
ChatIds == (lim.sids + 1)..(lim.sids + lim.chats)

Ids(items) == [k \in DOMAIN items |-> items[k].id]
\* [...streams.map(s => s.id), ...chats.map(c => c.id)]
TileIds(streamList, chatList) == Ids(streamList) \o Ids(chatList)

\* isMuted: stream.isMuted !== undefined ? stream.isMuted : settings.defaultMuteNewStreams
\* (defaultMuteNewStreams is false in createInitialState)
WithMute(stream) ==
  [stream EXCEPT !.isMuted = IF stream.isMuted # Undefined THEN stream.isMuted ELSE False]

addStream(state, stream) ==
  LET list == Append(state.streams, WithMute(stream))
  IN [state EXCEPT !.streams = list,
                   !.layout = chooseLayouts(TileIds(list, state.chats), DefaultMaxRows),
                   !.hasUnsavedChanges = TRUE]

addMultipleStreams(state, added) ==
  LET allStreams == state.streams \o [k \in DOMAIN added |-> WithMute(added[k])]
  IN [state EXCEPT !.streams = allStreams,
                   !.layout = chooseLayouts(Ids(allStreams), DefaultMaxRows),
                   !.hasUnsavedChanges = TRUE]

removeStream(state, id) ==
  [state EXCEPT !.streams = SelectSeq(state.streams, LAMBDA st : st.id # id),
                !.layout = SelectSeq(state.layout, LAMBDA item : item.i # id),
                !.chats = SelectSeq(state.chats, LAMBDA chat : chat.streamId # id),
                !.hasUnsavedChanges = TRUE]

\* updateStream(id, updates): updates carries a name or nothing the model follows
updateStream(state, id, updates) ==
  [state EXCEPT
     !.streams = [k \in DOMAIN state.streams |->
                    IF state.streams[k].id = id
                      THEN [state.streams[k] EXCEPT
                              !.name = IF updates.name # Undefined THEN updates.name ELSE @]
                      ELSE state.streams[k]],
     !.chats = IF updates.name # Undefined /\ updates.name # ""
                 THEN [k \in DOMAIN state.chats |->
                         IF state.chats[k].streamId = id
                           THEN [state.chats[k] EXCEPT !.streamName = updates.name]
                           ELSE state.chats[k]]
                 ELSE state.chats,
     !.hasUnsavedChanges = TRUE]

\* The stream type addChat reads off the stream's URL
StreamType(streamUrl) ==
  IF streamUrl \in {"youtube.com", "youtu.be"} THEN "YouTube"
  ELSE IF streamUrl = "twitch.tv" THEN "Twitch"
  ELSE ""

\* addChat with id = `chat-${Date.now()}`: nothing when the stream is not
\* in the store or is neither a YouTube nor a Twitch stream
addChat(state, id, streamId, streamName) ==
  IF \A k \in DOMAIN state.streams : state.streams[k].id # streamId
    THEN state
    ELSE LET stream == state.streams[Min({k \in DOMAIN state.streams :
                                            state.streams[k].id = streamId})]
             list == Append(state.chats,
                       ChatItem(id, streamId, StreamType(stream.streamUrl), streamName))
         IN IF StreamType(stream.streamUrl) = ""
              THEN state
              ELSE [state EXCEPT
                      !.chats = list,
                      !.layout = chooseLayouts(TileIds(state.streams, list), DefaultMaxRows),
                      !.hasUnsavedChanges = TRUE]

removeChat(state, id) ==
  [state EXCEPT !.chats = SelectSeq(state.chats, LAMBDA chat : chat.id # id),
                !.layout = SelectSeq(state.layout, LAMBDA item : item.i # id),
                !.hasUnsavedChanges = TRUE]

removeChatsForStream(state, streamId) ==
  [state EXCEPT
     !.chats = SelectSeq(state.chats, LAMBDA chat : chat.streamId # streamId),
     !.layout = SelectSeq(state.layout, LAMBDA item :
                  ~\E k \in DOMAIN state.chats :
                     state.chats[k].streamId = streamId /\ state.chats[k].id = item.i),
     !.hasUnsavedChanges = TRUE]

\* autoArrangeStreams: the state itself when there is no tile
autoArrangeStreams(state) ==
  IF state.streams \o state.chats = <<>>
    THEN state
    ELSE [state EXCEPT
            !.layout = chooseLayouts(TileIds(state.streams, state.chats), DefaultMaxRows),
            !.hasUnsavedChanges = TRUE]

\* App.tsx handleRemoveStream up to its await: the two store calls
handleRemoveStream(state, id) == removeStream(removeChatsForStream(state, id), id)

\* The streams handed to the store's operations; addStream takes the id it
\* is given, so an id may come a second time
UiStreams ==
  {Stream(id, "cam", IF id = 1 THEN "youtube.com" ELSE "example.com", Undefined, Undefined) :
     id \in StoreIds}

\* A store operation called in the renderer: store becomes next
StoreOp(next) ==
  /\ ~appExited /\ windowOpen
  /\ Len(next.streams) <= lim.streams
  /\ Len(next.chats) <= lim.chats
  /\ store' = next
  /\ UNCHANGED <<rtspVars, quitVars, apiVars, dialogVars, solverVars, grid>>

\* The store's operations as the window calls them; addChat's id, made from
\* the clock, is one no chat has
StoreOps ==
  \/ \E stream \in UiStreams : StoreOp(addStream(store, stream))
  \/ \E a \in UiStreams, b \in UiStreams : StoreOp(addMultipleStreams(store, <<a, b>>))
  \/ \E id \in StoreIds : StoreOp(removeStream(store, id))
  \/ \E id \in StoreIds : StoreOp(updateStream(store, id, [name |-> "cam2"]))
  \/ \E id \in ChatIds, streamId \in StoreIds :
       /\ \A k \in DOMAIN store.chats : store.chats[k].id # id
       /\ StoreOp(addChat(store, id, streamId, "cam"))
  \/ \E id \in ChatIds : StoreOp(removeChat(store, id))
  \/ \E streamId \in StoreIds : StoreOp(removeChatsForStream(store, streamId))
  \/ \E id \in StoreIds : StoreOp(handleRemoveStream(store, id))
  \/ StoreOp(autoArrangeStreams(store))

\* ------------------------------------------- the stream routes' handlers
GetStreamsRoute == Route("GET", <<"api", "streams">>)
PostStreamRoute == Route("POST", <<"api", "streams">>)
PutStreamRoute == Route("PUT", <<"api", "streams", ":id">>)
DeleteStreamRoute == Route("DELETE", <<"api", "streams", ":id">>)
StreamRoutes == {GetStreamsRoute, PostStreamRoute, PutStreamRoute, DeleteStreamRoute}

\* The ids `stream-${Date.now()}-${random}` yields: apart from the ids the
\* window's dialogs make, and never one the store holds
ApiIds == (lim.sids + lim.chats + 1)..(lim.sids + lim.chats + lim.streams)
\* An id no stream ever has
NoSuchId == 0
FreshIds == {id \in ApiIds : \A k \in DOMAIN store.streams : store.streams[k].id # id}

\* req.body of POST /api/streams
PostBody(name, streamUrl, isMuted, fitMode) ==
  [name |-> name, streamUrl |-> streamUrl, isMuted |-> isMuted, fitMode |-> fitMode]
PostBodies ==
  {PostBody("cam", "example.com", Undefined, Undefined),
   PostBody("cam", "youtube.com", True, "cover"),
   PostBody(Undefined, "example.com", Undefined, Undefined),
   PostBody("", "example.com", Undefined, "cover"),
   PostBody("cam", Undefined, True, Undefined),
   PostBody("cam", "", Undefined, Undefined)}
\* req.body of PUT /api/streams/:id
PutBodies == {[name |-> "cam2"], [name |-> Undefined]}
\* !v
Falsy(v) == v \in {Undefined, "", False}

\* The request a caller sends on a route: the :id parameter and the body
Requests(route) ==
  IF route = PostStreamRoute THEN {[id |-> NoSuchId, body |-> b] : b \in PostBodies}
  ELSE IF route = PutStreamRoute
    THEN {[id |-> id, body |-> b] : id \in StoreIds \cup ApiIds \cup {NoSuchId}, b \in PutBodies}
  ELSE IF route = DeleteStreamRoute
    THEN {[id |-> id, body |-> <<>>] : id \in StoreIds \cup ApiIds \cup {NoSuchId}}
  ELSE {[id |-> NoSuchId, body |-> <<>>]}

NewStreamAsSent(streamId, body) ==
  Stream(streamId, body.name, body.streamUrl, body.isMuted, body.fitMode)
\* newStream of the POST handler
NewStream(streamId, body) ==
  Stream(streamId, body.name, body.streamUrl,
         IF body.isMuted # Undefined THEN body.isMuted ELSE False,
         IF Falsy(body.fitMode) THEN "contain" ELSE body.fitMode)

Done(route, req, status, resBody) ==
  Handler("done", route, req.id, req.body, <<>>, FALSE, Reply(status, resBody))
Error(text) == [error |-> text]

\* A handler from its first line to its first await or early return
Entry(route, req, streamId) ==
  IF route = PostStreamRoute /\ (Falsy(req.body.name) \/ Falsy(req.body.streamUrl))
    THEN Done(route, req, 400, Error("Missing required fields: name, streamUrl"))
  ELSE IF ~windowOpen
    THEN Done(route, req, 503, Error("Application not ready"))
  ELSE IF route = PostStreamRoute
    THEN Handler("exec", route, req.id, req.body, NewStream(streamId, req.body), FALSE, NoReply)
  ELSE Handler("read", route, req.id, req.body, <<>>, FALSE, NoReply)

\* One request to the control API: createApp's middleware chain as in
\* ApiRequest, then the route's handler up to its first await
ApiCall(n, ip, route, h, req, streamId) ==
  /\ ~appExited
  /\ apiServer \in {"up", "closing"}
  /\ handlers[n].pc \in {"idle", "done"}
  /\ hits[ip] < lim.requests
  /\ hits' = IF UnderApi(route) THEN [hits EXCEPT ![ip] = Counted(@)] ELSE hits
  /\ lastRes' = Respond(ip, route, h, hits'[ip])
  /\ handlers' = IF lastRes'.stage = "handler" /\ route \in StreamRoutes
                   THEN [handlers EXCEPT ![n] = Entry(route, req, streamId)]
                   ELSE [handlers EXCEPT ![n] = Idle]
  /\ UNCHANGED <<rtspVars, quitVars, segRes, rendererVars, authConfig, apiServer, closers>>

StreamExistsAny(streamList, id) == streamList # <<>>
\* streams.some((s) => s.id === id)
StreamExists(streamList, id) == \E k \in DOMAIN streamList : streamList[k].id = id

\* The renderer runs 'window.streamStore?.getState().streams || []'
RendererRead(n) ==
  /\ ~appExited /\ windowOpen
  /\ handlers[n].pc = "read"
  /\ handlers' = [handlers EXCEPT
                    ![n].pc = "check",
                    ![n].found = StreamExists(store.streams, handlers[n].id),
                    ![n].res = Reply(0, IF handlers[n].route = GetStreamsRoute
                                          THEN [streams |-> store.streams] ELSE <<>>)]
  /\ UNCHANGED <<rtspVars, quitVars, segRes, rendererVars, authConfig, apiServer, closers, hits, lastRes>>

\* The handler resumes with the streams it read: GET answers them, PUT and
\* DELETE answer 404 or send the mutating script
HandlerCheck(n) ==
  /\ ~appExited
  /\ handlers[n].pc = "check"
  /\ LET hd == handlers[n]
     IN handlers' = [handlers EXCEPT ![n] =
          IF hd.route = GetStreamsRoute
            THEN [hd EXCEPT !.pc = "done", !.res = Reply(200, hd.res.body)]
          ELSE IF ~hd.found
            THEN [hd EXCEPT !.pc = "done", !.res = Reply(404, Error("Stream not found"))]
          ELSE [hd EXCEPT !.pc = "exec"]]
  /\ UNCHANGED <<rtspVars, quitVars, segRes, rendererVars, authConfig, apiServer, closers, hits, lastRes>>

\* The store operation the handler's script calls
Script(state, handler) ==
  IF handler.route = PostStreamRoute THEN addStream(state, handler.stream)
  ELSE IF handler.route = PutStreamRoute THEN updateStream(state, handler.id, handler.body)
  ELSE removeStream(state, handler.id)

\* The renderer runs the handler's addStream / updateStream / removeStream script
RendererExec(n) ==
  /\ ~appExited /\ windowOpen
  /\ handlers[n].pc = "exec"
  /\ Len(Script(store, handlers[n]).streams) <= lim.streams
  /\ store' = Script(store, handlers[n])
  /\ handlers' = [handlers EXCEPT ![n].pc = "reply"]
  /\ UNCHANGED <<rtspVars, quitVars, segRes, dialogVars, solverVars, grid,
                 authConfig, apiServer, closers, hits, lastRes>>

\* The handler resumes after its script: 201 with the stream, or 200
HandlerReply(n) ==
  /\ ~appExited
  /\ handlers[n].pc = "reply"
  /\ LET hd == handlers[n]
     IN handlers' = [handlers EXCEPT ![n] =
          IF hd.route = PostStreamRoute
            THEN [hd EXCEPT !.pc = "done",
                            !.res = Reply(201, [success |-> TRUE, stream |-> hd.stream])]
          ELSE IF hd.route = PutStreamRoute
            THEN [hd EXCEPT !.pc = "done",
                            !.res = Reply(200, [success |-> TRUE, id |-> hd.id,
                                                updates |-> hd.body])]
          ELSE [hd EXCEPT !.pc = "done", !.res = Reply(200, [success |-> TRUE, id |-> hd.id])]]
  /\ UNCHANGED <<rtspVars, quitVars, segRes, rendererVars, authConfig, apiServer, closers, hits, lastRes>>

\* executeJavaScript rejects because the window is gone: the catch block's 500
ScriptFailed(n) ==
  /\ ~appExited /\ ~windowOpen
  /\ handlers[n].pc \in {"read", "exec"}
  /\ handlers' = [handlers EXCEPT ![n].pc = "done",
                                  ![n].res = Reply(500, Error("Failed"))]
  /\ UNCHANGED <<rtspVars, quitVars, segRes, rendererVars, authConfig, apiServer, closers, hits, lastRes>>

HandlerSlots == 1..lim.handlers

BridgeSteps ==
  \/ \E n \in HandlerSlots, ip \in Callers, route \in RequestRoutes, h \in RequestHeaders :
       \E req \in Requests(route), streamId \in FreshIds \cup {NoSuchId} :
         /\ (streamId = NoSuchId) = (route # PostStreamRoute \/ FreshIds = {})
         /\ (route = PostStreamRoute /\ FreshIds = {}) =>
              (Falsy(req.body.name) \/ Falsy(req.body.streamUrl))
         /\ ApiCall(n, ip, route, h, req, streamId)
  \/ \E n \in HandlerSlots : RendererRead(n)
  \/ \E n \in HandlerSlots : HandlerCheck(n)
  \/ \E n \in HandlerSlots : RendererExec(n)
  \/ \E n \in HandlerSlots : HandlerReply(n)
  \/ \E n \in HandlerSlots : ScriptFailed(n)

StoreNext ==
  \/ HandleApiEnabled
  \/ BridgeSteps
  \/ StoreOps
  \/ \E darwin \in BOOLEAN : CloseWindow(darwin)

StoreInit == ApiInitWith(StoreProfile, DefaultAuthConfig, "down")

\* Requests to the stream routes overlapping one another
RaceNext ==
  \/ HandleApiEnabled
  \/ BridgeSteps
  \/ \E stream \in UiStreams : StoreOp(addStream(store, stream))
  \/ \E darwin \in BOOLEAN : CloseWindow(darwin)
RaceInit == ApiInitWith(RaceProfile, DefaultAuthConfig, "down")
RaceSpec == RaceInit /\ [][RaceNext]_vars
StoreSpec == StoreInit /\ [][StoreNext]_vars

\* ------------------------------------------------ the segment server
\* The routes of setupExpressServer in the order they are registered
SegFileRoute == "/rtsp/:streamId/:file"
SegHealthRoute == "/rtsp/:streamId/health"
SegDebugRoute == "/rtsp/debug/streams"
SegRoutes == <<SegFileRoute, SegHealthRoute, SegDebugRoute>>

\* The first path segment "debug", which no session id equals
DebugSegment == 0 - 1
\* An id no session is registered under
UnknownStream == 0
SegFiles == {"health", "playlist.m3u8", "segment0.ts", "streams"}

\* Express's match of a route's path pattern against /rtsp/<sid>/<file>
SegMatches(route, sid, file) ==
  IF route = SegFileRoute THEN TRUE
  ELSE IF route = SegHealthRoute THEN file = "health"
  ELSE sid = DebugSegment /\ file = "streams"
\* The first registered route that matches: no handler calls next()
SegRouteOf(sid, file) ==
  SegRoutes[Min({k \in DOMAIN SegRoutes : SegMatches(SegRoutes[k], sid, file)})]

\* fs.access(path.join(stream.outputDir, file)): ffmpeg writes the playlist
\* and the segments, nothing else
SegFileExists(sid, file) ==
  file \in {"playlist.m3u8", "segment0.ts"} /\ dirs[sid] = "playlist"

ServeFile(sid, file) ==
  IF ~HasStream(streams, sid) THEN SegRes(sid, file, "file", 404, "Stream not found")
  ELSE IF SegFileExists(sid, file) THEN SegRes(sid, file, "file", 200, "file")
  ELSE SegRes(sid, file, "file", 404, "File not found")

\* uptime is the time since startTime and is left out of the body
HealthBody(o) == [status |-> objs[o].status, errorCount |-> objs[o].errorCount]
ServeHealth(sid, file) ==
  IF ~HasStream(streams, sid) THEN SegRes(sid, file, "health", 404, "not_found")
  ELSE SegRes(sid, file, "health", 200, HealthBody(GetStream(streams, sid)))

ServeDebug(sid, file) == SegRes(sid, file, "debug", 200, StreamKeys(streams))

\* GET /rtsp/<sid>/<file> on the segment server
SegmentRequest(sid, file) ==
  /\ ~appExited
  /\ segRes' = IF SegRouteOf(sid, file) = SegFileRoute THEN ServeFile(sid, file)
               ELSE IF SegRouteOf(sid, file) = SegHealthRoute THEN ServeHealth(sid, file)
               ELSE ServeDebug(sid, file)
  /\ UNCHANGED <<rtspVars, quitVars, rendererVars,
                 authConfig, apiServer, closers, hits, lastRes, handlers>>

SegNext ==
  \/ SupervisorNext
  \/ \E sid \in StreamIds \cup {UnknownStream, DebugSegment}, file \in SegFiles :
       SegmentRequest(sid, file)
SegInit == ApiInitWith(SegProfile, DefaultAuthConfig, "down")
SegSpec == SegInit /\ [][SegNext]_vars

\* ------------------------------------------------- grid management
GridIds == 1..lim.grids
\* The ids `grid-${Date.now()}` yields: none a grid file or a save has
NewGridIds ==
  {g \in GridIds : ~grid.disk[g].present /\ g # grid.fields.currentGridId /\ g # grid.save.id}

\* updateRecentGrids: the id first, the others after it, five at most
updateRecentGrids(recent, g) ==
  LET list == <<g>> \o SelectSeq(recent, LAMBDA id : id # g)
  IN SubSeq(list, 1, Min2(5, Len(list)))

\* A step of the store's grid management in the renderer
GridStep(nextStore, nextGrid, nextSettings) ==
  /\ ~appExited /\ windowOpen
  /\ store' = nextStore
  /\ grid' = nextGrid
  /\ settings' = nextSettings
  /\ UNCHANGED <<rtspVars, quitVars, apiVars, apiServerRunning, keysMade, regenPending,
                 regenDone, solverVars>>

\* saveCurrentGrid(name) up to its first await; name "" is no name. The
\* savedGrid is built from the state read here
SaveBegin(name, newId) ==
  /\ grid.save.pc = "idle"
  /\ LET cur == grid.fields.currentGridId
         isNewGrid == cur = 0 \/ name # ""
         gridId == IF name = "" /\ cur # 0 THEN cur ELSE newId
         gridName == IF name # "" THEN name ELSE grid.fields.currentGridName
     IN /\ gridId \in GridIds
        /\ GridStep(store,
                    [grid EXCEPT !.fields.isSaving = TRUE,
                                 !.save = [pc |-> IF isNewGrid THEN "write" ELSE "load",
                                           id |-> gridId, name |-> gridName,
                                           content |-> Content(store)]],
                    settings)

\* window.api.loadGrid of the existing grid resolves or rejects
SaveLoaded ==
  /\ grid.save.pc = "load"
  /\ GridStep(store, [grid EXCEPT !.save.pc = "write"], settings)

\* window.api.saveGrid resolves (the file is written, SAVE_GRID) or rejects
\* (SAVE_ERROR)
SaveWritten(ok) ==
  /\ grid.save.pc = "write"
  /\ IF ok
       THEN GridStep([store EXCEPT !.hasUnsavedChanges = FALSE],
                     [grid EXCEPT
                        !.disk[grid.save.id] = GridFile(grid.save.name, grid.save.content),
                        !.fields.currentGridId = grid.save.id,
                        !.fields.currentGridName = grid.save.name,
                        !.fields.isSaving = FALSE,
                        !.fields.recentGridIds = updateRecentGrids(@, grid.save.id),
                        !.clean = grid.save.content,
                        !.save = NoSave],
                     settings)
       ELSE GridStep(store, [grid EXCEPT !.fields.isSaving = FALSE, !.save = NoSave], settings)

\* loadGrid(gridId) up to its await
LoadBegin(g) ==
  /\ grid.load = 0
  /\ GridStep(store, [grid EXCEPT !.load = g], settings)

\* window.api.loadGrid resolves: LOAD_GRID when the grid exists
LoadDone ==
  /\ grid.load # 0
  /\ LET file == grid.disk[grid.load]
     IN IF file.present
          THEN GridStep([store EXCEPT !.streams = file.content.streams,
                                      !.layout = file.content.layout,
                                      !.chats = file.content.chats,
                                      !.hasUnsavedChanges = FALSE],
                        [grid EXCEPT
                           !.fields.currentGridId = grid.load,
                           !.fields.currentGridName = file.name,
                           !.fields.recentGridIds = updateRecentGrids(@, grid.load),
                           !.clean = file.content,
                           !.load = 0],
                        settings)
          ELSE GridStep(store, [grid EXCEPT !.load = 0], settings)

\* deleteGrid(gridId) up to its await: the main process removes the file
DeleteBegin(g) ==
  /\ grid.del = 0
  /\ GridStep(store, [grid EXCEPT !.del = g, !.disk[g] = NoGrid], settings)

\* The state set({ ...createInitialState(), ... }) leaves: every field of
\* createInitialState, the settings among them
ResetSettings == InitialSettings

\* window.api.deleteGrid resolves: DELETE_GRID for the current grid,
\* UPDATE_RECENT_GRIDS for another
DeleteDone ==
  /\ grid.del # 0
  /\ LET recent == SelectSeq(grid.fields.recentGridIds, LAMBDA id : id # grid.del)
     IN IF grid.fields.currentGridId = grid.del
          THEN GridStep(createInitialState,
                        [grid EXCEPT
                           !.fields = [InitialGridFields EXCEPT !.recentGridIds = recent],
                           !.clean = EmptyContent, !.del = 0],
                        ResetSettings)
          ELSE GridStep(store,
                        [grid EXCEPT !.fields.recentGridIds = recent, !.del = 0],
                        settings)

\* createNewGrid(name)
CreateNewGrid(name) ==
  GridStep(createInitialState,
           [grid EXCEPT
              !.fields = [InitialGridFields EXCEPT
                            !.currentGridName = name,
                            !.recentGridIds = grid.fields.recentGridIds],
              !.clean = EmptyContent],
           ResetSettings)

GridNext ==
  \/ HandleApiEnabled
  \/ \E stream \in UiStreams : StoreOp(addStream(store, stream))
  \/ \E id \in StoreIds : StoreOp(removeStream(store, id))
  \/ \E name \in {"", "g"}, newId \in NewGridIds \cup {0} : SaveBegin(name, newId)
  \/ SaveLoaded
  \/ \E ok \in BOOLEAN : SaveWritten(ok)
  \/ \E g \in GridIds : LoadBegin(g)
  \/ LoadDone
  \/ \E g \in GridIds : DeleteBegin(g)
  \/ DeleteDone
  \/ CreateNewGrid("g")
GridInit == ApiInitWith(GridProfile, DefaultAuthConfig, "down")
GridSpec == GridInit /\ [][GridNext]_vars

\* ================================================================ claims
Range(f) == {f[i] : i \in DOMAIN f}
\* Call c runs the synchronous head of startStream / stopStream in this step
BeginsStart(c, sid) ==
  calls[c].pc = "idle" /\ calls'[c].kind = "start" /\ calls'[c].sid = sid
BeginsStop(c, sid) ==
  calls[c].pc = "idle" /\ calls'[c].kind = "stop" /\ calls'[c].sid = sid
StopIssued(sid) == \E d \in CallIds : calls[d].kind = "stop" /\ calls[d].sid = sid
StartSucceeded(d, sid) ==
  /\ calls[d].kind = "start" /\ calls[d].sid = sid
  /\ calls[d].pc = "done" /\ calls[d].res.success

\* C1: a start(streamId) issued after an earlier start for the same id has
\* returned success, with no stop issued for the id, returns at once with
\* success and the first call's playback URL, and spawns no process, creates
\* no stream object and leaves the session table as it is.
C1_SecondStartIdempotent ==
  [][\A c \in IpcCalls, d \in IpcCalls, sid \in StreamIds :
       (BeginsStart(c, sid) /\ StartSucceeded(d, sid) /\ ~StopIssued(sid))
         => /\ calls'[c].pc = "done"
            /\ calls'[c].res.success
            /\ calls'[c].res.url = calls[d].res.url
            /\ procs' = procs /\ objs' = objs /\ streams' = streams]_vars

C1_Witness ==
  \E c \in IpcCalls, d \in IpcCalls, sid \in StreamIds :
    /\ d < c /\ StartSucceeded(d, sid) /\ calls[d].obj # NoObj
    /\ StartSucceeded(c, sid) /\ calls[c].obj = NoObj
    /\ calls[c].res.url = calls[d].res.url
    /\ ~StopIssued(sid)
    /\ Cardinality({p \in DOMAIN procs : objs[procs[p].obj].id = sid}) = 1

\* C2: as long as no stop has been issued for a streamId, the start calls
\* for it have spawned at most one transcoder process, however they overlap.
C2_AtMostOneSpawn ==
  \A sid \in StreamIds :
    ~StopIssued(sid) =>
      Cardinality({p \in DOMAIN procs :
                     objs[procs[p].obj].id = sid /\ procs[p].caller # 0}) <= 1

ProcsOf(o) == {p \in DOMAIN procs : procs[p].obj = o}
C4_RetryCeiling ==
  \A o \in DOMAIN objs :
    /\ objs[o].retryCount <= maxRetries
    /\ ( /\ GetStream(streams, objs[o].id) = o
         /\ ~StopIssued(objs[o].id)
         /\ Cardinality({p \in ProcsOf(o) : procs[p].st = "crashed"}) = maxRetries + 1
         /\ \A p \in ProcsOf(o) : procs[p].st = "crashed" /\ ~procs[p].polling
         /\ o \notin timers )
       => /\ Cardinality({p \in ProcsOf(o) : procs[p].caller = 0}) = maxRetries
          /\ objs[o].status = "error"

\* C5: two sessions registered at the same time have different output
\* directories and different process handles, and a step of stop(streamId)
\* leaves every session registered under another id as it is: its table
\* entry, its stream object (status, handle), its processes and its directory.
C5_SessionIsolation ==
  /\ [](\A i \in DOMAIN streams, j \in DOMAIN streams :
          i # j =>
            /\ streams[i].id # streams[j].id
            /\ objs[streams[i].obj].outputDir # objs[streams[j].obj].outputDir
            /\ objs[streams[i].obj].ffmpegProcess # NoProc
                 => objs[streams[i].obj].ffmpegProcess # objs[streams[j].obj].ffmpegProcess)
  /\ [][\A c \in CallIds :
          (calls'[c] # calls[c] /\ calls'[c].kind = "stop")
            => \A e \in Range(streams) :
                 e.id # calls'[c].sid
                   => /\ e \in Range(streams')
                      /\ objs'[e.obj] = objs[e.obj]
                      /\ dirs'[e.id] = dirs[e.id]
                      /\ \A p \in ProcsOf(e.obj) : procs'[p] = procs[p]]_vars

C5_Witness ==
  \E c \in CallIds, i \in DOMAIN streams, j \in DOMAIN streams :
    /\ calls[c].kind = "stop" /\ calls[c].pc = "done" /\ calls[c].res = StopOk
    /\ streams[i].id # calls[c].sid
    /\ objs[streams[i].obj].status = "running"
    /\ objs[streams[i].obj].ffmpegProcess # NoProc
    /\ Alive(objs[streams[i].obj].ffmpegProcess)
    /\ ~procs[objs[streams[i].obj].ffmpegProcess].signalled
    /\ dirs[streams[i].id] = "playlist"
    /\ calls[c].obj < streams[i].obj

\* C6: a stop(streamId) that returns 'Stream not found' found no session and
\* changed nothing; one that returns success leaves no session registered
\* for streamId, every live process of the stopped session signalled, the
\* output directory deleted and the session's port released.
C6_StopPostcondition ==
  [][\A c \in CallIds :
       (calls'[c].kind = "stop" /\ calls'[c].pc = "done" /\ calls[c].pc # "done")
         => IF calls'[c].res.success
              THEN /\ ~HasStream(streams', calls'[c].sid)
                   /\ dirs'[calls'[c].sid] = "none"
                   /\ objs'[calls'[c].obj].port \notin usedPorts'
                   /\ \A p \in DOMAIN procs' :
                        (procs'[p].obj = calls'[c].obj /\ procs'[p].st = "alive")
                          => procs'[p].signalled
              ELSE /\ calls'[c].res = Failure("Stream not found")
                   /\ ~HasStream(streams, calls'[c].sid)
                   /\ UNCHANGED <<streams, objs, procs, timers, usedPorts, dirs>>]_vars

\* C7: a start for an unregistered streamId whose ffmpeg probe reports the
\* tool unavailable returns success = false with an error message; neither
\* its presence check nor its probe step registers a session, reserves a
\* port, spawns a process or creates a directory.
C7_ToolUnavailable ==
  [][\A c \in IpcCalls :
       /\ (\E sid \in StreamIds : BeginsStart(c, sid) /\ ~HasStream(streams, sid))
            => /\ calls'[c].pc = "probe"
               /\ UNCHANGED <<streams, objs, procs, timers, usedPorts, dirs>>
       /\ StartProbe(c, FALSE)
            => /\ calls'[c].pc = "done"
               /\ ~calls'[c].res.success
               /\ calls'[c].res.error \notin {"", "pending"}
               /\ calls'[c].obj = NoObj
               /\ UNCHANGED <<streams, objs, procs, timers, usedPorts, dirs>>]_vars

C7_Witness ==
  \E c \in IpcCalls :
    /\ calls[c].kind = "start" /\ calls[c].pc = "done"
    /\ calls[c].res = Failure("FFmpeg is not installed or not found in PATH")
    /\ streams = <<>> /\ objs = <<>> /\ procs = <<>> /\ usedPorts = {}
    /\ \A sid \in StreamIds : dirs[sid] = "none"

\* C8: when the grace timer armed by the before-quit handler fires, the
\* application process exits.
C8_ExitsAfterGrace == [][GraceTimer => appExited']_vars

\* A control-API request by ip on route carrying h is answered in this step
Answers(ip, route, h) == ApiRequest(ip, route, h)
\* The request carries no key: no non-empty X-API-Key, and no Authorization
\* value that is non-empty once its Bearer prefix is dropped
NoKeySupplied(h) ==
  /\ ~(h.xApiKey.present /\ h.xApiKey.value # <<>>)
  /\ \/ ~h.authorization.present
     \/ h.authorization.value \in {<<>>, <<Bearer>>}
\* The key the request carries: X-API-Key first, else the Authorization
\* value without its Bearer prefix
SuppliedKey(h) ==
  IF h.xApiKey.present /\ h.xApiKey.value # <<>> THEN h.xApiKey.value
  ELSE IF Len(h.authorization.value) > 0 /\ Head(h.authorization.value) = Bearer
    THEN Tail(h.authorization.value)
  ELSE h.authorization.value

C11_PriorKeyInvalidated ==
  [][\A ip \in Callers, r \in RequestRoutes, h \in RequestHeaders :
       (/\ Answers(ip, r, h) /\ r \in GatedRoutes
        /\ regenDone /\ regenPending = 0 /\ apiServer = "up"
        /\ lastRes'.stage # "limiter")
         => (lastRes'.stage = "handler" <=>
               (~NoKeySupplied(h) /\ SuppliedKey(h) = settings.apiKey))]_vars

\* A handler slot takes up a request on the route in this step
Enters(n, route) ==
  /\ handlers[n].pc \in {"idle", "done"}
  /\ handlers'[n].pc # "idle"
  /\ handlers'[n] # handlers[n]
  /\ handlers'[n].route = route
\* The handler in a slot sends its response in this step
Responds(n, route) ==
  /\ handlers[n].pc # "done"
  /\ handlers'[n].pc = "done"
  /\ handlers'[n].route = route
StoreHasStream(state, stream) == \E k \in DOMAIN state.streams : state.streams[k] = stream
StoreHasId(state, id) == \E k \in DOMAIN state.streams : state.streams[k].id = id
ValidBody(body) == ~Falsy(body.name) /\ ~Falsy(body.streamUrl)

C13_UnknownId ==
  [][\A n \in DOMAIN handlers :
       handlers[n].route \in {PutStreamRoute, DeleteStreamRoute} =>
         /\ (handlers[n].pc = "read" /\ handlers'[n].pc = "check") =>
              /\ handlers'[n].found = StoreHasId(store, handlers[n].id)
              /\ store' = store
         /\ (handlers[n].pc = "check" /\ ~handlers[n].found /\ handlers'[n] # handlers[n]) =>
              /\ handlers'[n].pc = "done"
              /\ handlers'[n].res = Reply(404, [error |-> "Stream not found"])
              /\ store' = store
         /\ (handlers[n].pc = "check" /\ handlers'[n].pc = "exec") => handlers[n].found
  ]_vars
\* A DELETE and a PUT for an id the store does not hold have been answered 404
C13_Witness ==
  \E n \in DOMAIN handlers :
    /\ handlers[n].pc = "done" /\ handlers[n].route = DeleteStreamRoute
    /\ handlers[n].res.status = 404
    /\ ~StoreHasId(store, handlers[n].id)
    /\ Len(store.streams) = 2 /\ Len(store.chats) = 1

\* The solver has returned from a call with n ids
Solved == solverCalls > 0
SolvedN == Len(solverIn.ids)
\* The candidates that fit the row budget of the call in solverIn
Fits(c) == c.totalH <= solverIn.maxRows
SomeFits == \E k \in DOMAIN AllowedWidths : Fits(Cand(AllowedWidths[k], SolvedN))

\* C14: chooseLayouts returns one placement per input id, in input order,
\* whatever the row budget; no ids give the empty sequence.
C14_AllPlacedInOrder ==
  Solved =>
    /\ Len(solverOut) = SolvedN
    /\ \A k \in 1..SolvedN : solverOut[k].i = solverIn.ids[k]
\* 145 ids in descending order, more than the budget of 24 rows holds, were all placed
C14_Witness ==
  /\ Solved /\ SolvedN = 145 /\ solverIn.maxRows = DefaultMaxRows
  /\ solverIn.ids[1] = 145 /\ ~SomeFits
  /\ Len(solverOut) = 145 /\ solverOut[145].i = 1

\* C15: when some candidate width fits the row budget, the returned layout
\* uses a width that fits (no tile ends below maxRows) and no fitting
\* candidate has a greater score.
C15_BestFeasible ==
  (Solved /\ SolvedN > 0 /\ SomeFits) =>
    LET c == Cand(solverOut[1].w, SolvedN)
    IN /\ Fits(c)
       /\ \A k \in DOMAIN solverOut :
            /\ solverOut[k].w = c.w /\ solverOut[k].h = c.h
            /\ solverOut[k].y + solverOut[k].h <= solverIn.maxRows
       /\ \A k \in DOMAIN AllowedWidths :
            Fits(Cand(AllowedWidths[k], SolvedN)) =>
              ~ScoreGreater(Cand(AllowedWidths[k], SolvedN), c)
\* Seven tiles in a budget of 14 rows: widths 12 and 8 do not fit, width 6 was chosen
C15_Witness ==
  /\ Solved /\ SolvedN = 7 /\ solverIn.maxRows = 14
  /\ ~Fits(Cand(12, 7)) /\ ~Fits(Cand(8, 7)) /\ Fits(Cand(6, 7)) /\ Fits(Cand(2, 7))
  /\ solverOut[1].w = 6 /\ solverOut[7].y + solverOut[7].h <= 14

\* C16: when no candidate width fits the row budget, the returned layout
\* uses the smallest width, 2, and places all n tiles.
C16_FallbackSmallest ==
  (Solved /\ SolvedN > 0 /\ ~SomeFits) =>
    /\ Len(solverOut) = SolvedN
    /\ \A k \in DOMAIN solverOut : solverOut[k].w = 2

StoreTileIds(state) == TileIds(state.streams, state.chats)

\* C17: after every step that changes the store's tile ids, the layout is
\* what chooseLayouts returns for the tile ids now in the store with
\* maxRows = 24.
C17_LayoutRecomputed ==
  [][StoreTileIds(store') # StoreTileIds(store) =>
       store'.layout = chooseLayouts(StoreTileIds(store'), DefaultMaxRows)]_vars

\* C19: a segment-server request GET /rtsp/<sid>/health is answered by the
\* health handler: with the session's status and error count when a
\* session is registered under sid, with 404 when none is.
C19_HealthAnswered ==
  [][(segRes' # segRes /\ segRes'.file = "health") =>
       /\ segRes'.handler = "health"
       /\ IF HasStream(streams, segRes'.sid)
            THEN /\ segRes'.status = 200
                 /\ segRes'.body = HealthBody(GetStream(streams, segRes'.sid))
            ELSE segRes'.status = 404
  ]_vars

\* C20: no two streams in the store have the same id, and no two layout
\* placements carry the same id.
C20_UniqueIds ==
  /\ \A j, k \in DOMAIN store.streams :
       store.streams[j].id = store.streams[k].id => j = k
  /\ \A j, k \in DOMAIN store.layout :
       store.layout[j].i = store.layout[k].i => j = k

\* A stopStream call has removed the session held in object o
StoppedObj(o) ==
  \E c \in CallIds :
    calls[c].kind = "stop" /\ calls[c].pc = "done" /\ calls[c].res.success /\ calls[c].obj = o

\* C21: once a stopStream call has removed a session, no transcoder
\* process is spawned for that session's object afterwards.
C21_NoSpawnAfterStop ==
  [][\A p \in DOMAIN procs' :
       p \notin DOMAIN procs => ~StoppedObj(procs'[p].obj)]_vars

\* C22: when a startStream call returns success, a session is registered
\* for its streamId at that moment and the session's state is running.
C22_SuccessMeansRunning ==
  [][\A c \in IpcCalls :
       (calls'[c].kind = "start" /\ calls'[c].pc = "done" /\ calls[c].pc # "done"
          /\ calls'[c].res.success)
         => /\ HasStream(streams', calls'[c].sid)
            /\ objs'[GetStream(streams', calls'[c].sid)].status = "running"]_vars

\* C23: a registered session whose state is running has a live transcoder
\* process.
C23_RunningHasProcess ==
  \A e \in Range(streams) :
    objs[e.obj].status = "running" =>
      \E p \in ProcsOf(e.obj) : procs[p].st = "alive"

\* No startStream or stopStream call is suspended
Quiescent == \A c \in CallIds : calls[c].pc \in {"idle", "done"}

\* C24: whenever no start or stop is in progress, the reserved ports are
\* exactly the ports of the registered sessions, and two registered
\* sessions hold different ports; with no session registered, no port is
\* reserved.
C24_PortsMatchSessions ==
  Quiescent =>
    /\ usedPorts = {objs[e.obj].port : e \in Range(streams)}
    /\ \A i, j \in DOMAIN streams :
         objs[streams[i].obj].port = objs[streams[j].obj].port => i = j

\* The ids the layout places
LayoutIds(state) == {state.layout[k].i : k \in DOMAIN state.layout}

\* C25: the ids the layout places are the stream ids and chat ids of the
\* store: every stream and chat has a placement and no placement is left
\* for a removed one.
C25_LayoutCoversTiles ==
  LayoutIds(store) = Range(StoreTileIds(store))

\* C25, the removal through the Control API: the renderer's run of a DELETE
\* handler's script leaves the streams, chats and placed ids that the
\* window's own remove action leaves.
C25_DeleteAsUiRemove ==
  [][\A n \in DOMAIN handlers :
       (handlers[n].route = DeleteStreamRoute /\ handlers[n].pc = "exec"
          /\ handlers'[n].pc = "reply")
         => /\ store'.streams = handleRemoveStream(store, handlers[n].id).streams
            /\ store'.chats = handleRemoveStream(store, handlers[n].id).chats
            /\ LayoutIds(store') = LayoutIds(handleRemoveStream(store, handlers[n].id))]_vars

\* C26: when the renderer runs the updateStream or removeStream script of a
\* PUT or DELETE handler, which then answers success, the store holds a
\* stream with the handler's id: the state the existence check read is the
\* state the mutation is applied to.
C26_CheckAndMutateAgree ==
  [][\A n \in DOMAIN handlers :
       (handlers[n].route \in {PutStreamRoute, DeleteStreamRoute}
          /\ handlers[n].pc = "exec" /\ handlers'[n].pc = "reply")
         => StoreHasId(store, handlers[n].id)]_vars

\* C27: hasUnsavedChanges is false only when the in-memory streams, layout
\* and chats equal the snapshot last written by saveCurrentGrid or last read
\* by loadGrid (the empty content of a new grid before either), and isSaving
\* is true only while a saveCurrentGrid call is in progress.
C27_CleanMeansSaved ==
  /\ ~store.hasUnsavedChanges => Content(store) = grid.clean
  /\ grid.fields.isSaving => grid.save.pc # "idle"

\* C28: createNewGrid, and deleteGrid of the current grid, leave the settings
\* record (apiEnabled, apiKey) unchanged.
C28_SettingsKept ==
  [][(CreateNewGrid("g") \/ (DeleteDone /\ grid.fields.currentGridId = grid.del))
       => settings' = settings]_vars

\* C29: whenever the width-12 and the width-8 candidates both fit the row
\* budget, the width-8 candidate has the greater score and chooseLayouts does
\* not return width 12.
C29_TwelveLosesToEight ==
  (Solved /\ SolvedN >= 1 /\ Fits(Cand(12, SolvedN)) /\ Fits(Cand(8, SolvedN))) =>
    /\ ScoreGreater(Cand(8, SolvedN), Cand(12, SolvedN))
    /\ solverOut[1].w # 12

\* The placements of solverOut in the row of placement k
RowOf(k) == {j \in DOMAIN solverOut : solverOut[j].y = solverOut[k].y}
\* Placements j and k cover a common cell
Overlap(j, k) ==
  /\ solverOut[j].x < solverOut[k].x + solverOut[k].w
  /\ solverOut[k].x < solverOut[j].x + solverOut[j].w
  /\ solverOut[j].y < solverOut[k].y + solverOut[k].h
  /\ solverOut[k].y < solverOut[j].y + solverOut[j].h

\* C30: for n >= 1 ids and the default maxRows, the placements have one width
\* and one height, lie inside the 24 columns, do not overlap, fill the rows
\* left to right in input order from row 0, and every row, a partial last row
\* included, starts at floor((24 - count * w) / 2) for its count of tiles.
C30_CentredRows ==
  (Solved /\ SolvedN >= 1 /\ solverIn.maxRows = DefaultMaxRows) =>
    LET w == solverOut[1].w
        h == solverOut[1].h
    IN /\ w >= 1 /\ h >= 1 /\ solverOut[1].y = 0
       /\ \A k \in DOMAIN solverOut :
            /\ solverOut[k].w = w /\ solverOut[k].h = h
            /\ 0 <= solverOut[k].x /\ solverOut[k].x + w <= GRID_COLS
            /\ \A j \in 1..(k - 1) : ~Overlap(j, k)
            /\ k > 1 =>
                 \/ /\ solverOut[k].y = solverOut[k - 1].y
                    /\ solverOut[k].x = solverOut[k - 1].x + w
                 \/ /\ solverOut[k].y = solverOut[k - 1].y + h
                    /\ solverOut[k].x < solverOut[k - 1].x + w
            /\ LET row == RowOf(k)
               IN solverOut[Min(row)].x = (GRID_COLS - Cardinality(row) * w) \div 2
\* Five tiles in the default budget: two rows of two tiles of width 12 and a
\* last row of one tile, centred at column 6
C30_Witness ==
  /\ Solved /\ SolvedN = 5 /\ solverIn.maxRows = DefaultMaxRows
  /\ solverOut[4].x = 12 /\ solverOut[4].y = 7
  /\ solverOut[5].x = 6 /\ solverOut[5].y = 14 /\ solverOut[5].w = 12

====
